---- MODULE Spec2Model ----
(***************************************************************************)
(* Model of cuenca/resources/transfers.py: Transfer.create,                *)
(* Transfer._gen_idempotency_key, the TransferRequest schema and the       *)
(* Transfer resource declaration, together with the collaborators the      *)
(* resource talks to (the field validators, the Creatable / Listable       *)
(* capabilities, the HTTP session and the remote API).                     *)
(*                                                                         *)
(* Python values are records [t, i, s]: t the Python type, i the numeric   *)
(* payload, s the text payload.  A str is a sequence of one-character      *)
(* strings, so that formatting and the CLABE checksum are computed.        *)
(***************************************************************************)
EXTENDS Integers, Sequences, FiniteSets, TLC

VARIABLES now, ticks, pool, limit, cur, log, wire, server, lst, gets

vars == <<now, ticks, pool, limit, cur, log, wire, server, lst, gets>>

\* ------------------------------------------------------------------ bounds
MaxCalls == 2
MaxTicks == 2
MaxGets == 2

\* ------------------------------------------------------------ Python values
PyNone == [t |-> "NoneType", i |-> 0, s |-> <<>>]
PyInt(n) == [t |-> "int", i |-> n, s |-> <<>>]
PyBool(b) == [t |-> "bool", i |-> IF b THEN 1 ELSE 0, s |-> <<>>]
\* a float with one decimal, held in tenths: Float(105) is 10.5
PyFloat(tenths) == [t |-> "float", i |-> tenths, s |-> <<>>]
PyStr(chars) == [t |-> "str", i |-> 0, s |-> chars]

DigitChars == <<"0", "1", "2", "3", "4", "5", "6", "7", "8", "9">>

DigitChar(d) == DigitChars[d + 1]

IsDigit(c) == \E d \in 0..9 : DigitChar(d) = c

DigitVal(c) == CHOOSE d \in 0..9 : DigitChar(d) = c

RECURSIVE NatStr(_)
NatStr(n) == IF n < 10 THEN <<DigitChar(n)>>
             ELSE NatStr(n \div 10) \o <<DigitChar(n % 10)>>

IntStr(n) == IF n < 0 THEN <<"-">> \o NatStr(0 - n) ELSE NatStr(n)

RECURSIVE Pad(_, _)
Pad(chars, width) == IF Len(chars) >= width THEN chars
                     ELSE Pad(<<"0">> \o chars, width)

\* format(value, ''): what an f-string replacement field produces
Format(v) ==
    CASE v.t = "str" -> v.s
      [] v.t = "int" -> IntStr(v.i)
      [] v.t = "float" -> IntStr(v.i \div 10) \o <<".">> \o <<DigitChar(v.i % 10)>>
      [] v.t = "bool" -> IF v.i = 1 THEN <<"T", "r", "u", "e">>
                         ELSE <<"F", "a", "l", "s", "e">>
      [] OTHER -> <<"N", "o", "n", "e">>

\* bool(value)
Truthy(v) ==
    CASE v.t = "str" -> Len(v.s) > 0
      [] v.t = "NoneType" -> FALSE
      [] OTHER -> v.i # 0

\* ------------------------------------------------------------------- clock
IsLeap(y) == (y % 4 = 0 /\ y % 100 # 0) \/ y % 400 = 0

DaysInMonth(y, m) ==
    IF m = 2 THEN (IF IsLeap(y) THEN 29 ELSE 28)
    ELSE IF m \in {4, 6, 9, 11} THEN 30 ELSE 31

NextDate(d) ==
    IF d.day < DaysInMonth(d.year, d.month)
    THEN [d EXCEPT !.day = d.day + 1]
    ELSE IF d.month < 12
         THEN [d EXCEPT !.month = d.month + 1, !.day = 1]
         ELSE [year |-> d.year + 1, month |-> 1, day |-> 1]

\* datetime.date(): the calendar date of a datetime, the time of day dropped
DateOf(t) == [year |-> t.year, month |-> t.month, day |-> t.day]

\* date.__str__: ISO 8601, YYYY-MM-DD
DateStr(d) ==
    Pad(NatStr(d.year), 4) \o <<"-">> \o Pad(NatStr(d.month), 2)
        \o <<"-">> \o Pad(NatStr(d.day), 2)

\* the clock moves in half days
TickHours == {12}

Advance(t, h) ==
    IF t.hour + h < 24 THEN [t EXCEPT !.hour = t.hour + h]
    ELSE LET d == NextDate(DateOf(t))
         IN [year |-> d.year, month |-> d.month, day |-> d.day,
             hour |-> t.hour + h - 24]

\* ---------------------------------------------------------- field validators
\* clabe's check digit: the first 17 digits weighted 3, 7, 1 cyclically
ClabeWeight(k) == <<3, 7, 1>>[((k - 1) % 3) + 1]

RECURSIVE WeightedSum(_, _)
WeightedSum(chars, k) ==
    IF k = 0 THEN 0
    ELSE WeightedSum(chars, k - 1) + ((DigitVal(chars[k]) * ClabeWeight(k)) % 10)

ComputeControlDigit(chars) == (10 - (WeightedSum(chars, 17) % 10)) % 10

\* Clabe: a str of exactly 18 digits whose last digit is the check digit
Clabe(v) ==
    /\ v.t = "str"
    /\ Len(v.s) = 18
    /\ \A k \in 1..Len(v.s) : IsDigit(v.s[k])
    /\ DigitVal(v.s[18]) = ComputeControlDigit(v.s)

\* StrictPositiveInt: an int (not a bool, a float or a str) greater than 0
StrictPositiveInt(v) == v.t = "int" /\ v.i > 0

\* StrictStr: a str, nothing coerced
StrictStr(v) == v.t = "str"

\* a plain `str` field: a str as it is, a number as its text, None refused
StrAccepts(v) == v.t \in {"str", "int", "float", "bool"}

StrCoerce(v) == PyStr(Format(v))

\* --------------------------------------------------------- TransferRequest
\* account_number declared a plain str instead of a Clabe
TransferRequestStrAccount(account_number, amount, descriptor, idempotency_key) ==
    /\ StrAccepts(account_number)
    /\ StrictPositiveInt(amount)
    /\ StrictStr(descriptor)
    /\ StrAccepts(idempotency_key)

\* amount declared a strict int with no lower bound
TransferRequestAnyInt(account_number, amount, descriptor, idempotency_key) ==
    /\ Clabe(account_number)
    /\ amount.t = "int"
    /\ StrictStr(descriptor)
    /\ StrAccepts(idempotency_key)

TransferRequest(account_number, amount, descriptor, idempotency_key) ==
    /\ Clabe(account_number)
    /\ StrictPositiveInt(amount)
    /\ StrictStr(descriptor)
    /\ StrAccepts(idempotency_key)

\* req.dict()
ReqDict(account_number, amount, descriptor, idempotency_key) ==
    [account_number |-> account_number,
     amount |-> amount,
     descriptor |-> descriptor,
     idempotency_key |-> StrCoerce(idempotency_key)]

\* ---------------------------------------------------------------- Transfer
_endpoint == "/transfers"

\* amount listed among the query parameters
QueryParamsWithAmount == {"account_number", "idempotency_key", "status", "amount"}

_query_params == {"account_number", "idempotency_key", "status"}

\* the amount left out of the f-string
KeyAtNoAmount(utcnow, account_number, amount) ==
    DateStr(DateOf(utcnow)) \o <<":">> \o Format(account_number)

\* the datetime formatted without .date(): the hour is part of the key
KeyAtDatetime(utcnow, account_number, amount) ==
    DateStr(DateOf(utcnow)) \o <<" ">> \o Pad(NatStr(utcnow.hour), 2)
        \o <<":">> \o Format(account_number) \o <<":">> \o Format(amount)

\* the date left out of the f-string
KeyAtNoDate(utcnow, account_number, amount) ==
    Format(account_number) \o <<":">> \o Format(amount)

\* the f-string of _gen_idempotency_key at the datetime utcnow() returned
KeyAt(utcnow, account_number, amount) ==
    DateStr(DateOf(utcnow)) \o <<":">> \o Format(account_number)
        \o <<":">> \o Format(amount)

_gen_idempotency_key(account_number, amount) ==
    PyStr(KeyAt(now, account_number, amount))

\* `if idempotency_key:` : the test of line 56 inverted
KeySentInverted(account_number, amount, idempotency_key) ==
    IF Truthy(idempotency_key)
    THEN _gen_idempotency_key(account_number, amount)
    ELSE idempotency_key

\* `if idempotency_key is None:` : only None counts as omitted
KeySentNoneOnly(account_number, amount, idempotency_key) ==
    IF idempotency_key = PyNone
    THEN _gen_idempotency_key(account_number, amount)
    ELSE idempotency_key

\* the key generated whatever the caller passed
KeySentAlways(account_number, amount, idempotency_key) ==
    _gen_idempotency_key(account_number, amount)

\* the key create puts in the request
KeySent(account_number, amount, idempotency_key) ==
    IF ~Truthy(idempotency_key)
    THEN _gen_idempotency_key(account_number, amount)
    ELSE idempotency_key

\* ------------------------------------------------------- what callers pass
ValidClabeA == PyStr(<<"6", "4", "6", "1", "8", "0", "1", "5", "7", "0", "0", "0", "0", "0", "0", "0", "0", "4">>)

ValidClabeB == PyStr(<<"0", "0", "2", "0", "1", "0", "0", "7", "7", "7", "7", "7", "7", "7", "7", "7", "7", "1">>)

BadClabe == PyStr(<<"b", "a", "d", "-", "c", "l", "a", "b", "e">>)

BadChecksum == PyStr(<<"6", "4", "6", "1", "8", "0", "1", "5", "7", "0", "0", "0", "0", "0", "0", "0", "0", "5">>)

ShortClabe == PyStr(<<"6", "4", "6", "1", "8", "0", "1", "5", "7", "0", "0", "0", "0", "0", "0", "0", "0">>)

Payment == PyStr(<<"p", "a", "y", "m", "e", "n", "t">>)

Rent == PyStr(<<"x">>)

Order123 == PyStr(<<"o", "r", "d", "e", "r", "-", "1", "2", "3">>)

Args(accounts, amounts, descriptors, keys) ==
    [account_number : accounts, amount : amounts,
     descriptor : descriptors, idempotency_key : keys]

\* the calls of a caller that keeps to the signature's types: one transfer
\* with and without a key of the caller's, the same with another amount, with
\* another account, and with an account that is no CLABE
CoreArgs ==
    {a \in Args({ValidClabeA, ValidClabeB, BadClabe}, {PyInt(1), PyInt(10000)},
                {Payment}, {PyNone, Order123}) :
        \/ a.account_number = ValidClabeA /\ a.amount = PyInt(1)
        \/ a.account_number = ValidClabeA /\ a.idempotency_key = PyNone
        \/ a.amount = PyInt(1) /\ a.idempotency_key = PyNone}

\* every kind of value a caller may pass, well typed or not
AllArgs ==
    Args({ValidClabeA, ValidClabeB, BadClabe, BadChecksum, ShortClabe},
         {PyInt(0), PyInt(0 - 100), PyInt(1), PyInt(10000), PyFloat(100),
          PyFloat(105), PyStr(<<"1", "0">>), PyBool(TRUE)},
         {Payment, Rent, PyInt(5), PyNone},
         {PyNone, PyStr(<<>>), Order123, PyInt(7)})

\* the argument tuples the callers of a run draw from
Pool == IF pool = "all" THEN AllArgs ELSE CoreArgs

NoArgs ==
    [account_number |-> PyNone, amount |-> PyNone,
     descriptor |-> PyNone, idempotency_key |-> PyNone]

\* ------------------------------------------------------------- remote API
ServerStatuses == {"submitted", "succeeded"}

NoJson == [id |-> 0, body |-> ReqDict(PyNone, PyNone, PyNone, PyNone), status |-> ""]

Idle == [state |-> "idle", code |-> 0, json |-> NoJson]

\* Status(value): the enum member a response's status string names
Status(value) == [enum |-> "Status", value |-> value]

NoTransfer == [id |-> 0, idempotency_key |-> PyNone, status |-> Status("")]

\* cls(**response): the Transfer built from a 2xx response
FromDict(json) ==
    [id |-> json.id,
     idempotency_key |-> json.body.idempotency_key,
     status |-> Status(json.status)]

ErrorOf(code) ==
    CASE code \in {401, 403} -> "AuthenticationError"
      [] code = 409 -> "ConflictError"
      [] OTHER -> "HTTPError"

\* ------------------------------------------------------------------- state
Start == [year |-> 2020, month |-> 12, day |-> 31, hour |-> 0]

InitCommon ==
    /\ now = Start
    /\ ticks = 0
    /\ cur = [n |-> 0, intent |-> 0, args |-> NoArgs, at |-> Start,
              status |-> "idle", error |-> "", result |-> NoTransfer]
    /\ log = <<>>
    /\ wire = Idle
    /\ server = {}
    /\ lst = [filters |-> <<>>, status |-> "idle"]
    /\ gets = <<>>

Init == InitCommon /\ pool = "core" /\ limit = MaxCalls

InitArgs == InitCommon /\ pool = "all" /\ limit = 1

\* ----------------------------------------------------------------- actions
\* time passes
Tick ==
    /\ ticks < MaxTicks
    /\ \E h \in TickHours : now' = Advance(now, h)
    /\ ticks' = ticks + 1
    /\ UNCHANGED <<pool, limit, cur, log, wire, server, lst, gets>>

\* create sending its request a second time
createTwice(intent, a) ==
    LET key == KeySent(a.account_number, a.amount, a.idempotency_key)
        called == [n |-> cur.n + 1, intent |-> intent, args |-> a, at |-> now,
                   status |-> "waiting", error |-> "", result |-> NoTransfer]
    IN IF TransferRequest(a.account_number, a.amount, a.descriptor, key)
       THEN LET body == ReqDict(a.account_number, a.amount, a.descriptor, key)
                post == [n |-> cur.n + 1, intent |-> intent, at |-> now,
                         args |-> a, path |-> _endpoint, body |-> body]
            IN /\ cur' = called
               /\ log' = log \o <<post, post>>
               /\ wire' = [state |-> "request", code |-> 0,
                           json |-> [NoJson EXCEPT !.body = body]]
       ELSE /\ cur' = [called EXCEPT !.status = "raised",
                                     !.error = "ValidationError"]
            /\ UNCHANGED <<log, wire>>

\* Transfer.create up to the point where it blocks in session.post
create(intent, a) ==
    LET key == KeySent(a.account_number, a.amount, a.idempotency_key)
        called == [n |-> cur.n + 1, intent |-> intent, args |-> a, at |-> now,
                   status |-> "waiting", error |-> "", result |-> NoTransfer]
    IN IF TransferRequest(a.account_number, a.amount, a.descriptor, key)
       THEN LET body == ReqDict(a.account_number, a.amount, a.descriptor, key)
            IN /\ cur' = called
               /\ log' = Append(log, [n |-> cur.n + 1, intent |-> intent,
                                      at |-> now, args |-> a,
                                      path |-> _endpoint, body |-> body])
               /\ wire' = [state |-> "request", code |-> 0,
                           json |-> [NoJson EXCEPT !.body = body]]
       ELSE /\ cur' = [called EXCEPT !.status = "raised",
                                     !.error = "ValidationError"]
            /\ UNCHANGED <<log, wire>>

Busy == cur.status = "waiting"

\* the caller starts a new transfer
Create ==
    /\ ~Busy
    /\ cur.n < MaxCalls
    /\ cur.intent < limit
    /\ \E a \in Pool : create(cur.intent + 1, a)
    /\ UNCHANGED <<now, ticks, pool, limit, server, lst, gets>>

\* the caller submits the transfer of a failed call again, same arguments
Resubmit ==
    /\ cur.status = "raised"
    /\ cur.error # "ValidationError"
    /\ cur.n < MaxCalls
    /\ create(cur.intent, cur.args)
    /\ UNCHANGED <<now, ticks, pool, limit, server, lst, gets>>

\* the API handles the request: credentials, then the idempotency key
ServerHandle ==
    /\ wire.state = "request"
    /\ \/ /\ wire' = [wire EXCEPT !.state = "response", !.code = 401]
          /\ server' = server
       \/ /\ \E t \in server :
                t.body.idempotency_key = wire.json.body.idempotency_key
          /\ wire' = [wire EXCEPT !.state = "response", !.code = 409]
          /\ server' = server
       \/ /\ \A t \in server :
                t.body.idempotency_key # wire.json.body.idempotency_key
          /\ \E st \in ServerStatuses :
                LET t == [id |-> Cardinality(server) + 1, body |-> wire.json.body]
                IN /\ server' = server \cup {t}
                   /\ wire' = [state |-> "response", code |-> 201,
                               json |-> [id |-> t.id, body |-> t.body,
                                         status |-> st]]
    /\ UNCHANGED <<now, ticks, pool, limit, cur, log, lst, gets>>

\* the request or its response is lost: session.post raises
TransportFail ==
    /\ wire.state \in {"request", "response"}
    /\ wire' = Idle
    /\ cur' = [cur EXCEPT !.status = "raised", !.error = "TransportError"]
    /\ UNCHANGED <<now, ticks, pool, limit, log, server, lst, gets>>

\* session.post returns or raises, and so does create; the wire keeps the
\* response last received
Return ==
    /\ wire.state = "response"
    /\ wire' = [wire EXCEPT !.state = "idle"]
    /\ cur' = IF wire.code = 201
              THEN [cur EXCEPT !.status = "returned",
                               !.result = FromDict(wire.json)]
              ELSE [cur EXCEPT !.status = "raised", !.error = ErrorOf(wire.code)]
    /\ UNCHANGED <<now, ticks, pool, limit, log, server, lst, gets>>

Next == Tick \/ Create \/ Resubmit \/ ServerHandle \/ TransportFail \/ Return

Spec == Init /\ [][Next]_vars

SpecArgs == InitArgs /\ [][Next]_vars

\* ----------------------------------------------------------- Transfer.list
FilterKeys == {"account_number", "idempotency_key", "status", "amount", "descriptor"}

FilterValues == {"x"}

Filters == UNION {[K -> FilterValues] : K \in SUBSET FilterKeys}

\* Listable.list up to its first page: the filter keys are checked against
\* the resource's _query_params, then the first GET is sent; the page says
\* whether another follows
List ==
    /\ lst.status # "iterating"
    /\ Len(gets) < MaxGets
    /\ \E f \in Filters :
          IF (DOMAIN f) \ _query_params # {}
          THEN /\ lst' = [filters |-> f, status |-> "raised"]
               /\ gets' = gets
          ELSE /\ gets' = Append(gets, [path |-> _endpoint, params |-> f])
               /\ \E more \in BOOLEAN :
                     lst' = [filters |-> f,
                             status |-> IF more THEN "iterating" ELSE "done"]
    /\ UNCHANGED <<now, ticks, pool, limit, cur, log, wire, server>>

\* the caller consumes past the buffered items: the next page is fetched
FetchPage ==
    /\ lst.status = "iterating"
    /\ IF Len(gets) < MaxGets
       THEN /\ gets' = Append(gets, [path |-> _endpoint, params |-> lst.filters])
            /\ \E more \in BOOLEAN :
                  lst' = [lst EXCEPT !.status = IF more THEN "iterating" ELSE "done"]
       ELSE /\ gets' = gets
            /\ lst' = [lst EXCEPT !.status = "done"]
    /\ UNCHANGED <<now, ticks, pool, limit, cur, log, wire, server>>

NextList == List \/ FetchPage

SpecList == Init /\ [][NextList]_vars

\* ------------------------------------------------------------------ claims
Posts == {log[k] : k \in DOMAIN log}

CurPosts == {e \in Posts : e.n = cur.n}

\* the three constrained fields of a call all meet their constraints
FieldsValid(a) ==
    /\ Clabe(a.account_number)
    /\ a.amount.t = "int" /\ a.amount.i > 0
    /\ a.descriptor.t = "str"

\* the request body made of the caller's four values as they were passed
BodyAsGiven(a) ==
    [account_number |-> a.account_number, amount |-> a.amount,
     descriptor |-> a.descriptor, idempotency_key |-> a.idempotency_key]

\* '{date}:{account_number}:{amount}' of a sent request, from the date of the
\* call and the call's arguments
DerivedKey(e) ==
    PyStr(DateStr(DateOf(e.at)) \o <<":">> \o e.args.account_number.s
              \o <<":">> \o NatStr(e.args.amount.i))

Omitted(e) == e.args.idempotency_key = PyNone \/ e.args.idempotency_key = PyStr(<<>>)

SameDay(e1, e2) ==
    /\ e1.at.year = e2.at.year
    /\ e1.at.month = e2.at.month
    /\ e1.at.day = e2.at.day

\* C1: a call of Transfer.create in which account_number is not a valid CLABE,
\* amount is not a strictly positive int or descriptor is not a str raises a
\* validation error and issues no POST, whether or not a key was passed; so
\* every POST ever issued carries three valid fields.
C1_InvalidNeverPosts ==
    /\ (cur.n > 0 /\ ~FieldsValid(cur.args)) =>
          /\ cur.status = "raised"
          /\ cur.error = "ValidationError"
          /\ CurPosts = {}
          /\ wire.state = "idle"
    /\ \A e \in Posts : FieldsValid(e.args) /\ FieldsValid(e.body)

\* Transfer.create('bad-clabe', 10000, 'x') has raised and nothing was sent
C1_Witness ==
    /\ cur.status = "raised"
    /\ cur.error = "ValidationError"
    /\ cur.args = [account_number |-> BadClabe, amount |-> PyInt(10000),
                   descriptor |-> Rent, idempotency_key |-> PyNone]
    /\ log = <<>>

\* what create does with valid fields and the key k it was passed
SendsAsGiven ==
    /\ Cardinality(CurPosts) = 1
    /\ \A e \in CurPosts : e.path = "/transfers" /\ e.body = BodyAsGiven(cur.args)
    /\ cur.status = "returned" =>
          /\ wire.code = 201
          /\ cur.result.status = [enum |-> "Status", value |-> wire.json.status]

\* C2 as stated: for valid fields and every key the caller passed (any str),
\* one POST to /transfers carries exactly the caller's four values, and the
\* Transfer returned has the status of the response.
C2_AnySuppliedKey ==
    (cur.n > 0 /\ FieldsValid(cur.args) /\ cur.args.idempotency_key.t = "str")
        => SendsAsGiven

\* C2 amended: for valid fields and every non-empty str key the caller passed,
\* one POST to /transfers carries exactly the caller's four values, and the
\* Transfer returned has the status of the response.
C2_NonEmptySuppliedKey ==
    (cur.n > 0 /\ FieldsValid(cur.args) /\ cur.args.idempotency_key.t = "str"
        /\ Len(cur.args.idempotency_key.s) > 0)
        => SendsAsGiven

\* Transfer.create('646180157000000004', 10000, 'payment', 'order-123') has
\* returned a Transfer with status succeeded
C2_Witness ==
    /\ cur.status = "returned"
    /\ cur.args = [account_number |-> ValidClabeA, amount |-> PyInt(10000),
                   descriptor |-> Payment, idempotency_key |-> Order123]
    /\ cur.result.status.value = "succeeded"
    /\ \E e \in CurPosts : e.body.idempotency_key = Order123

\* C3: when idempotency_key is omitted (None), the key in the request body is
\* exactly '{date}:{account_number}:{amount}', the date being the UTC calendar
\* date at the time of the call.
C3_OmittedKeyIsDerived ==
    \A e \in Posts :
        e.args.idempotency_key = PyNone => e.body.idempotency_key = DerivedKey(e)

\* a call made on 2021-01-01 without a key has sent the key spelled out here
C3_Witness ==
    \E e \in Posts :
        /\ e.args.idempotency_key = PyNone
        /\ e.at.year = 2021 /\ e.at.month = 1 /\ e.at.day = 1
        /\ e.body.idempotency_key = PyStr(<<"2", "0", "2", "1", "-", "0", "1", "-", "0", "1", ":", "6", "4", "6", "1", "8", "0", "1", "5", "7", "0", "0", "0", "0", "0", "0", "0", "0", "4", ":", "1", "0", "0", "0", "0">>)

\* C4: two requests whose keys were generated for the same account_number and
\* amount on the same UTC calendar date carry the same key, at whatever times
\* of that day and for whatever transfers they were made.
C4_SameDaySameKey ==
    \A e1, e2 \in Posts :
        (/\ Omitted(e1) /\ Omitted(e2)
         /\ e1.args.account_number = e2.args.account_number
         /\ e1.args.amount = e2.args.amount
         /\ SameDay(e1, e2))
        => e1.body.idempotency_key = e2.body.idempotency_key

\* two distinct transfers, created at different hours of one day with the key
\* omitted, were sent with the same key, and the second met a conflict
C4_Witness ==
    \E e1, e2 \in Posts :
        /\ e1.intent # e2.intent
        /\ Omitted(e1) /\ Omitted(e2)
        /\ SameDay(e1, e2) /\ e1.at.hour # e2.at.hour
        /\ e1.body.idempotency_key = e2.body.idempotency_key
        /\ e2.n = cur.n /\ cur.error = "ConflictError"

\* the transfers the API holds for the requests of one logical transfer
HeldFor(i) ==
    {t \in server : \E e \in Posts :
        e.intent = i /\ t.body.idempotency_key = e.body.idempotency_key}

\* C5: the API holds at most one transfer per idempotency_key value; and a
\* logical transfer whose caller passes a key of its own, however often it is
\* submitted again after failures, is held at most once.
C5_OneTransferPerKey ==
    /\ \A t1, t2 \in server :
          t1.body.idempotency_key = t2.body.idempotency_key => t1 = t2
    /\ \A e \in Posts :
          Truthy(e.args.idempotency_key) => Cardinality(HeldFor(e.intent)) <= 1

\* a transfer whose response was lost was submitted again the next day with
\* the caller's key: the API answered with a conflict and holds it once
C5_Witness ==
    \E e1, e2 \in Posts :
        /\ e1.intent = e2.intent /\ e1.n # e2.n
        /\ e1.args.idempotency_key = Order123
        /\ ~SameDay(e1, e2)
        /\ e2.n = cur.n /\ cur.error = "ConflictError"
        /\ Cardinality(server) = 1

\* C6: an invocation of create issues at most one POST; when the POST fails
\* the invocation has raised the error of that failure and has no request
\* outstanding.
C6_OnePostNoRetry ==
    /\ \A j, k \in DOMAIN log : log[j].n = log[k].n => j = k
    /\ Len(log) <= cur.n
    /\ (cur.status = "raised" /\ cur.error # "ValidationError") =>
          /\ Cardinality(CurPosts) = 1
          /\ wire.state = "idle"
    /\ cur.error = "AuthenticationError" => wire.code = 401
    /\ cur.error = "ConflictError" => wire.code = 409
    /\ cur.status = "returned" => wire.state = "idle" /\ wire.code = 201

\* an invocation was refused for its credentials: it raised after one POST
C6_Witness ==
    /\ cur.status = "raised"
    /\ cur.error = "AuthenticationError"
    /\ Cardinality(CurPosts) = 1
    /\ Len(log) = cur.n

\* C7: every amount that is an int greater than 0 is accepted, every int <= 0
\* and every value that is not an int is rejected, so the amount of every
\* request sent is a strictly positive int.
C7_AmountStrictlyPositiveInt ==
    /\ \A e \in Posts : e.body.amount.t = "int" /\ e.body.amount.i > 0
    /\ (cur.n > 0 /\ ~(cur.args.amount.t = "int" /\ cur.args.amount.i > 0)) =>
          cur.status = "raised" /\ cur.error = "ValidationError" /\ CurPosts = {}
    /\ (cur.n > 0 /\ cur.args.amount.t = "int" /\ cur.args.amount.i > 0
           /\ Clabe(cur.args.account_number) /\ cur.args.descriptor.t = "str") =>
          cur.error # "ValidationError" /\ CurPosts # {}

\* the float 10.0 was refused as an amount, all other fields being valid
C7_Witness ==
    /\ cur.args.amount = PyFloat(100)
    /\ Clabe(cur.args.account_number)
    /\ cur.args.descriptor.t = "str"
    /\ cur.status = "raised"
    /\ cur.error = "ValidationError"
    /\ log = <<>>

\* C8: Transfer.list with a filter key outside {account_number,
\* idempotency_key, status} fails and sends no GET; with all keys in that set
\* it is not refused and its GET is sent.
C8_ListChecksFilterKeys ==
    /\ \A k \in DOMAIN gets :
          DOMAIN gets[k].params \subseteq {"account_number", "idempotency_key", "status"}
    /\ lst.status # "idle" =>
          (lst.status = "raised" <=>
              ~(DOMAIN lst.filters \subseteq {"account_number", "idempotency_key", "status"}))
    /\ lst.status \in {"iterating", "done"} =>
          \E k \in DOMAIN gets : gets[k].params = lst.filters

\* Transfer.list(status=..., amount=...) was refused before any GET
C8_Witness ==
    /\ lst.status = "raised"
    /\ DOMAIN lst.filters = {"status", "amount"}
    /\ gets = <<>>

\* C9: a falsy idempotency_key (None or '') is replaced by the generated key,
\* a non-empty str is sent as passed and nothing empty is sent as passed, so
\* the key of every request sent is a non-empty str.
C9_KeySentNeverEmpty ==
    \A e \in Posts :
        /\ e.body.idempotency_key.t = "str"
        /\ Len(e.body.idempotency_key.s) > 0
        /\ Omitted(e) => e.body.idempotency_key = DerivedKey(e)
        /\ (e.args.idempotency_key.t = "str" /\ ~Omitted(e)) =>
              e.body.idempotency_key = e.args.idempotency_key
        /\ e.body.idempotency_key = e.args.idempotency_key => ~Omitted(e)

\* a call passing '' as its key has sent the generated key spelled out here
C9_Witness ==
    \E e \in Posts :
        /\ e.args.idempotency_key = PyStr(<<>>)
        /\ e.at.year = 2020
        /\ e.body.idempotency_key = PyStr(<<"2", "0", "2", "0", "-", "1", "2", "-", "3", "1", ":", "6", "4", "6", "1", "8", "0", "1", "5", "7", "0", "0", "0", "0", "0", "0", "0", "0", "4", ":", "1">>)

\* C10: two requests sent with the key omitted carry the same key exactly
\* when they have the same account_number, the same amount and the same UTC
\* calendar date.
C10_KeysEqualIffSameDayAccountAmount ==
    \A e1, e2 \in Posts :
        (Omitted(e1) /\ Omitted(e2)) =>
            (e1.body.idempotency_key = e2.body.idempotency_key
                <=> (/\ e1.args.account_number = e2.args.account_number
                     /\ e1.args.amount = e2.args.amount
                     /\ SameDay(e1, e2)))

\* a transfer submitted again with the same arguments after the date changed
\* was sent with another key, and the API holds it twice
C10_Witness ==
    \E e1, e2 \in Posts :
        /\ e1.intent = e2.intent /\ e1.args = e2.args
        /\ Omitted(e1)
        /\ ~SameDay(e1, e2)
        /\ e1.body.idempotency_key # e2.body.idempotency_key
        /\ \E t1, t2 \in server :
              /\ t1 # t2
              /\ t1.body = e1.body
              /\ t2.body = e2.body

====
